---- MODULE Spec2Model ----
(***************************************************************************)
(* OTP issuance and verification of the National Dialogue admin portal:    *)
(* OtpService (src/shared/schema.ts) on top of the otp_verifications       *)
(* operations of DatabaseStorage (src/server/storage.ts).                  *)
(*                                                                         *)
(* Every `await storage.x(...)` of the service is one database statement.  *)
(* A statement executes atomically; the JavaScript between two awaits runs *)
(* without interruption, and other requests run between the steps.  Each   *)
(* statement and each continuation that reads the clock is one action.     *)
(* The clock counts seconds (Date.now() / 1000).                           *)
(***************************************************************************)
EXTENDS Integers, Sequences, FiniteSets, TLC

(* ---------------- program constants (OtpService) ---------------- *)
OTP_EXPIRY_MINUTES == 5
MAX_ATTEMPTS == 3
RATE_LIMIT_WINDOW == 60
MAX_REQUESTS_PER_WINDOW == 3

(* ---------------- bounds of the model ---------------- *)
NumProcs == 2
MaxRecords == 2
\* rows inserted in the scenario that exercises the rate limiter
MaxRateRecords == 4
\* lengths of the identifiers in the scenario that exercises the validation
MaxPhoneLen == 4
MaxEmailLen == 5
\* the largest max a rate limiter is created with
MaxLimit == 3

Procs == 1..NumProcs
Ids == 1..(MaxRecords + MaxRateRecords)
\* the instants the clock is observed at: the start, one rate-limit window later,
\* one time-to-live later, and a window after that
Instants == {0, RATE_LIMIT_WINDOW, OTP_EXPIRY_MINUTES * 60,
             OTP_EXPIRY_MINUTES * 60 + RATE_LIMIT_WINDOW}

(* ---------------- inputs ---------------- *)
Digits == {"0", "1", "2", "3", "4", "5", "6", "7", "8", "9"}
Phone1 == <<"+", "2", "7">>
BadPhone == <<"0", "8", "2">>
Email1 == <<"a", "@", "b", ".", "c">>
BadEmail == <<"a", "@", "b">>
\* a body the schemas refuse: the type is not one of the channels
MalformedBody == <<Phone1, "fax">>
\* otpRequestSchema.parse / otpVerifySchema.parse return (TRUE) or throw (FALSE)
otpRequestSchema(body) == body[2] \in {"sms", "email"}
otpVerifySchema(body) == body[2] \in {"sms", "email"}
\* request bodies { identifier, type }
RequestInputs ==
    { <<Phone1, "sms">>, <<BadPhone, "sms">>, <<Email1, "email">>, <<BadEmail, "email">> }
\* the (identifier, type) pairs verification is asked for
VerifyPairs == { <<Phone1, "sms">>, <<Email1, "email">> }
\* identifiers of the scenario that exercises the validation: every string of
\* up to MaxPhoneLen (MaxEmailLen) characters of the alphabet, and for the phone
\* numbers the longest valid one and the shortest one that is too long
PhoneChars == {"+", "0", "2", "7"}
EmailChars == {"a", "@", ".", " "}
Strings(chars, n) == UNION { [1..k -> chars] : k \in 1..n }
LongPhone(n) == <<"+", "2">> \o [i \in 1..n |-> "7"]
PhoneSamples == Strings(PhoneChars, MaxPhoneLen) \cup { LongPhone(14), LongPhone(15) }
EmailSamples == Strings(EmailChars, MaxEmailLen)
SampleInputs == { <<i, "sms">> : i \in PhoneSamples } \cup { <<i, "email">> : i \in EmailSamples }

\* integers the random source is sampled at (both ends of the range and beside them)
RandomSample == {99999, 100000, 999998, 999999}
SubmittedCodes == {"100000", "999998"}

(* ---------------- messages ---------------- *)
ErrInvalidPhone == <<"Invalid phone number format. Please include country code (e.g., +27821234567)">>
ErrInvalidEmail == <<"Invalid email address format">>
ErrRateLimit == <<"Too many requests. Please wait", RATE_LIMIT_WINDOW, "seconds before requesting another code.">>
ErrProcess == <<"Failed to process OTP request. Please try again.">>
ErrNotFound == <<"No verification code found. Please request a new code.">>
ErrUsed == <<"Verification code has already been used. Please request a new code.">>
ErrExpired == <<"Verification code has expired. Please request a new code.">>
ErrTooMany == <<"Too many failed attempts. Please request a new verification code.">>
ErrVerify == <<"Failed to verify code. Please try again.">>
\* (mutant) the message always says 'attempts'
ErrInvalidCode_Plural(remaining) ==
    <<"Invalid verification code.", remaining, "attempts", "remaining.">>
ErrInvalidCode(remaining) ==
    <<"Invalid verification code.", remaining,
      IF remaining = 1 THEN "attempt" ELSE "attempts", "remaining.">>
ErrSmsNotConfigured == <<"SMS service not configured. Please contact administrator.">>
ErrSmsNoNumber == <<"SMS sending phone number not configured">>
ErrSms21211 == <<"Invalid phone number format. Please include country code.">>
ErrSms21608 == <<"Phone number is not verified for this account.">>
ErrSmsFailed == <<"Failed to send SMS verification code. Please try again.">>
ErrEmailNotConfigured == <<"Email service not configured. Please contact administrator.">>
ErrEmailNoSender == <<"Email sender not configured">>
ErrEmailInvalid == <<"Invalid email address format">>
ErrEmailFailed == <<"Failed to send email verification code. Please try again.">>

\* the route handlers' catch blocks
ErrBadRequest == <<"Invalid OTP request data">>
ErrBadVerify == <<"Invalid OTP verification data">>

\* OtpServiceResult { success, message?, error?, data? }; an absent member is <<>>
Ok(msg) == [success |-> TRUE, message |-> msg, error |-> <<>>, data |-> <<>>]
OkData(msg, data) == [success |-> TRUE, message |-> msg, error |-> <<>>, data |-> data]
Fail(err) == [success |-> FALSE, message |-> <<>>, error |-> err, data |-> <<>>]
NoResult == [success |-> FALSE, message |-> <<>>, error |-> <<>>, data |-> <<>>]
\* Date.prototype.toISOString of the instant t
ToISOString(t) == <<"ISO8601", t>>

VARIABLES
    now,      \* the clock, in seconds
    store,    \* the rows of otp_verifications
    nextId,   \* the next row's id (rows are numbered in insertion order)
    env,      \* the provider configuration the process was started with
    pc,       \* each request handler's position; "done": the service has returned
              \* its result, "threw": the service's promise was rejected,
              \* "badbody": the body schema's parse threw
    req,      \* each handler's request body
    loc,      \* each handler's local variables
    result,   \* each handler's OtpServiceResult, once it has returned
    scenario, \* the requests that arrive: "base" (both channels, valid and invalid
              \* identifiers), "rate" (one phone number, asked for repeatedly),
              \* "inputs" (identifiers of every shape, one row), "fault" (as
              \* "base", with malformed bodies and store statements that can fail)
    okCount,  \* history: successful verifications returned, per row id
    fresh,    \* history: per pair, the code of the last successful requestOtp
              \* while no other operation on the pair has started since
    requests, \* the rate limiter's Map: per client key, { count, resetTime }
    limits,   \* the windowMs and max the rate limiter was created with
    reply,    \* what the rate limiter did with the last request it received
    passed    \* history: per client key, the requests the rate limiter has let
              \* through since the stored window was opened

vars == <<now, store, nextId, env, pc, req, loc, result, scenario, okCount, fresh,
          requests, limits, reply, passed>>
limiterVars == <<requests, limits, reply, passed>>

(* ---------------- pure functions of OtpService ---------------- *)

\* crypto.randomInt(min, max): an integer n with min <= n < max
RandomInt(min, max) == { n \in RandomSample : min <= n /\ n < max }

\* generateOtpCode(): the strings it can return
generateOtpCode == { ToString(n) : n \in RandomInt(100000, 999999) }

\* hashOtpCode(code): the SHA-256 digest, an injective image of the code
hashOtpCode(code) == <<"sha256", code>>

\* (mutant) the number of digits is not bounded: /^\+[1-9]\d+$/
isValidPhoneNumber_Unbounded(phone) ==
    /\ Len(phone) >= 3
    /\ phone[1] = "+"
    /\ phone[2] \in Digits \ {"0"}
    /\ \A i \in 3..Len(phone) : phone[i] \in Digits

\* /^\+[1-9]\d{1,14}$/
isValidPhoneNumber(phone) ==
    /\ Len(phone) >= 3
    /\ Len(phone) <= 16
    /\ phone[1] = "+"
    /\ phone[2] \in Digits \ {"0"}
    /\ \A i \in 3..Len(phone) : phone[i] \in Digits

\* /^[^\s@]+@[^\s@]+\.[^\s@]+$/
isValidEmail(email) ==
    \E i \in 2..Len(email), j \in 4..Len(email) :
        /\ i + 1 < j
        /\ j < Len(email)
        /\ email[i] = "@"
        /\ email[j] = "."
        /\ \A k \in (1..Len(email)) \ {i} : email[k] \notin {"@", " "}

(* ---------------- the otp_verifications operations of DatabaseStorage ---------------- *)

NoRec == [id |-> 0, identifier |-> <<>>, type |-> "", code |-> "", hashedCode |-> <<>>,
          attempts |-> 0, isUsed |-> FALSE, expiresAt |-> 0, createdAt |-> 0]

\* INSERT ... RETURNING: the row gets its id and created_at = now() from the database
createOtpVerification(s, otp, id, t) ==
    s \cup { [id |-> id, identifier |-> otp.identifier, type |-> otp.type,
              code |-> otp.code, hashedCode |-> otp.hashedCode,
              attempts |-> otp.attempts, isUsed |-> otp.isUsed,
              expiresAt |-> otp.expiresAt, createdAt |-> t] }

\* ORDER BY created_at DESC. created_at has microsecond resolution: rows inserted
\* within one tick of the model's clock are ordered by insertion.
CreatedAfter(a, b) ==
    \/ a.createdAt > b.createdAt
    \/ a.createdAt = b.createdAt /\ a.id > b.id

\* (mutant) ORDER BY created_at ASC
getOtpVerification_Oldest(s, identifier, type) ==
    LET rows == { r \in s : r.identifier = identifier /\ r.type = type /\ r.isUsed = FALSE }
    IN  IF rows = {} THEN NoRec
        ELSE CHOOSE r \in rows : \A o \in rows \ {r} : CreatedAfter(o, r)

\* SELECT ... WHERE identifier AND type AND is_used = false ORDER BY created_at DESC;
\* the first row, or undefined
getOtpVerification(s, identifier, type) ==
    LET rows == { r \in s : r.identifier = identifier /\ r.type = type /\ r.isUsed = FALSE }
    IN  IF rows = {} THEN NoRec
        ELSE CHOOSE r \in rows : \A o \in rows \ {r} : CreatedAfter(r, o)

\* (mutant) the UPDATE matches no row
markOtpAsUsed_NoRow(s, id) == s

\* UPDATE ... SET is_used = true WHERE id = id
markOtpAsUsed(s, id) ==
    { IF r.id = id THEN [r EXCEPT !.isUsed = TRUE] ELSE r : r \in s }

\* (mutant) the UPDATE of the attempts also sets is_used
incrementOtpAttempts_MarksUsed(s, id) ==
    { IF r.id = id THEN [r EXCEPT !.attempts = r.attempts + 1, !.isUsed = TRUE] ELSE r : r \in s }

\* UPDATE ... SET attempts = attempts + 1 WHERE id = id
incrementOtpAttempts(s, id) ==
    { IF r.id = id THEN [r EXCEPT !.attempts = r.attempts + 1] ELSE r : r \in s }

\* (mutant) the DELETE matches no row
deleteOtpVerification_NoRow(s, identifier, type) == s

\* (mutant) the DELETE's condition on the type is inverted
deleteOtpVerification_OtherType(s, identifier, type) ==
    { r \in s : ~(r.identifier = identifier /\ r.type # type) }

\* DELETE ... WHERE identifier AND type
deleteOtpVerification(s, identifier, type) ==
    { r \in s : ~(r.identifier = identifier /\ r.type = type) }

\* DELETE ... WHERE expires_at <= now
cleanupExpiredOtps(s, t) ==
    { r \in s : ~(r.expiresAt <= t) }

\* SELECT ... WHERE identifier AND type AND created_at >= since
getRecentOtpRequests(s, identifier, type, since) ==
    { r \in s : r.identifier = identifier /\ r.type = type /\ r.createdAt >= since }

(* ---------------- the synchronous parts of OtpService ---------------- *)

\* requestOtp's input validation: the error it returns, or <<>> when the input passes
\* Math.round(num / den * 100) for counts num <= den, den > 0: halves round up
RoundPercent(num, den) == (200 * num + den) \div (2 * den)

\* getOtpStats at clock t: three COUNT(*) queries and the rate computed from them
\* the three COUNT(*) queries of getOtpStats
CountSent(s) == Cardinality(s)
CountVerified(s) == Cardinality({ r \in s : r.isUsed })
CountRecent(s, last24Hours) == Cardinality({ r \in s : r.createdAt >= last24Hours })

\* the object getOtpStats returns for the three counts
OtpStats(totalSent, totalVerified, recentRequests) ==
    [totalSent |-> totalSent,
     totalVerified |-> totalVerified,
     successRate |-> IF totalSent > 0 THEN RoundPercent(totalVerified, totalSent) ELSE 0,
     recentRequests |-> recentRequests]

\* getOtpStats at clock t when no other statement runs between its queries
getOtpStats(s, t) ==
    LET last24Hours == t - 24 * 60 * 60
    IN OtpStats(CountSent(s), CountVerified(s), CountRecent(s, last24Hours))

\* what OtpService.getOtpStats returns when the store throws
ZeroStats == [totalSent |-> 0, totalVerified |-> 0, successRate |-> 0, recentRequests |-> 0]

(* ---------------- access tokens and permissions (server/auth.ts) ---------------- *)

JWT_SECRET == "JWT_SECRET"
REFRESH_SECRET == "REFRESH_SECRET"

\* jwt.sign at clock iat: the payload, the key that signed it and the expiry
Sign(payload, secret, iat, expiresIn) ==
    [payload |-> payload, secret |-> secret, exp |-> iat + expiresIn]
\* jwt.verify at clock t: the signature is the key's and the token has not expired
JwtVerifies(token, secret, t) == token.secret = secret /\ t < token.exp

NoPayload == [userId |-> "", email |-> "", roles |-> {}]

generateTokens(user, iat) ==
    LET payload == [userId |-> user.id, email |-> user.email, roles |-> user.userRoles]
    IN [accessToken |-> Sign(payload, JWT_SECRET, iat, 15 * 60),
        refreshToken |-> Sign(payload, REFRESH_SECRET, iat, 7 * 24 * 60 * 60)]

verifyToken(token, t) ==
    IF JwtVerifies(token, JWT_SECRET, t) THEN token.payload ELSE NoPayload

\* req.user before authenticateToken has set it
NoUser == [undefined |-> TRUE]

\* a middleware either answers the request or calls next() with req.user
Answer(status, code, message) ==
    [next |-> FALSE, status |-> status,
     body |-> [error |-> [code |-> code, message |-> message]], user |-> NoUser]
CallNext(user) == [next |-> TRUE, status |-> 0, body |-> <<>>, user |-> user]

\* authenticateToken: the token is the second word of the Authorization header;
\* req.user gets the id of the payload and nothing else
authenticateToken(headers, t) ==
    IF Len(headers) < 2
    THEN Answer(401, "NO_TOKEN", "Access token required")
    ELSE LET payload == verifyToken(headers[2], t) IN
         IF payload = NoPayload
         THEN Answer(401, "INVALID_TOKEN", "Invalid or expired token")
         ELSE CallNext([id |-> payload.userId])

rolePermissions ==
    [role \in {"Admin", "Analyst", "Moderator", "DeptOfficer"} |->
        CASE role = "Admin" -> {"manage_users", "manage_departments", "view_analytics", "manage_settings"}
          [] role = "Analyst" -> {"view_analytics", "export_data"}
          [] role = "Moderator" -> {"review_submissions", "manage_cases"}
          [] role = "DeptOfficer" -> {"manage_assigned_cases", "view_department_data"}]

\* whether a set of role names grants the permission
Grants(roleNames, permission) ==
    \/ "SuperAdmin" \in roleNames
    \/ \E role \in roleNames :
           role \in DOMAIN rolePermissions /\ permission \in rolePermissions[role]

\* requirePermission(permission) on req.user: the role names are those of
\* req.user.userRoles, none when req.user has no userRoles
requirePermission(permission, user) ==
    IF user = NoUser
    THEN Answer(401, "UNAUTHORIZED", "Authentication required")
    ELSE LET userRoles == IF "userRoles" \in DOMAIN user THEN user.userRoles ELSE {}
         IN IF Grants(userRoles, permission)
            THEN CallNext(user)
            ELSE Answer(403, "FORBIDDEN", "Insufficient permissions")

\* the two middlewares of GET /api/otp/stats, in order
StatsGate(headers, t) ==
    LET auth == authenticateToken(headers, t) IN
    IF auth.next THEN requirePermission("view_analytics", auth.user) ELSE auth

\* the accounts of the deployment, by the roles assigned to them
RoleAssignments == << {"SuperAdmin"}, {"Admin"}, {"Analyst"}, {"Moderator"}, {} >>
Users ==
    { [id |-> ToString(i), email |-> <<"u", ToString(i)>>, userRoles |-> RoleAssignments[i]] :
        i \in DOMAIN RoleAssignments }
\* the instants at which the login route issued the tokens in circulation
TokenIssuedAt == { 0 - 15 * 60, 0 }
\* the Authorization headers that arrive: none, a scheme without a token, an
\* access token (some of them expired), a refresh token, a token signed by another key
ArrivingHeaders ==
    { <<>>, <<"Bearer">> }
    \cup { <<"Bearer", generateTokens(u, iat).accessToken>> : u \in Users, iat \in TokenIssuedAt }
    \cup { <<"Bearer", generateTokens(u, 0).refreshToken>> : u \in Users }
    \cup { <<"Bearer", Sign([userId |-> "1", email |-> <<"u", "1">>, roles |-> {"SuperAdmin"}],
                            "forged", 0, 15 * 60)>> }

ValidationError(identifier, type) ==
    IF type = "sms" /\ ~isValidPhoneNumber(identifier) THEN ErrInvalidPhone
    ELSE IF type = "email" /\ ~isValidEmail(identifier) THEN ErrInvalidEmail
    ELSE <<>>

\* checkRateLimit's verdict on the rows getRecentOtpRequests returned
\* (mutant) the comparison admits a request at the maximum
WithinRateLimit_AtMost(cnt) == cnt <= MAX_REQUESTS_PER_WINDOW

\* (mutant) the limiter rejects one request early
WithinRateLimit_Early(cnt) == cnt < MAX_REQUESTS_PER_WINDOW - 1

WithinRateLimit(cnt) == cnt < MAX_REQUESTS_PER_WINDOW

\* (mutant) the expiry check is missing
VerifyDecision_NoExpiry(rec, code, t) ==
    IF rec = NoRec THEN "notfound"
    ELSE IF rec.isUsed THEN "used"
    ELSE IF rec.attempts >= MAX_ATTEMPTS THEN "toomany"
    ELSE IF ~(code = rec.code \/ hashOtpCode(code) = rec.hashedCode) THEN "invalid"
    ELSE "valid"

\* (mutant) the attempts check is off by one: attempts > MAX_ATTEMPTS
VerifyDecision_OffByOne(rec, code, t) ==
    IF rec = NoRec THEN "notfound"
    ELSE IF rec.isUsed THEN "used"
    ELSE IF t > rec.expiresAt THEN "expired"
    ELSE IF rec.attempts > MAX_ATTEMPTS THEN "toomany"
    ELSE IF ~(code = rec.code \/ hashOtpCode(code) = rec.hashedCode) THEN "invalid"
    ELSE "valid"

\* (mutant) the attempts check is made before the expiry check
VerifyDecision_AttemptsFirst(rec, code, t) ==
    IF rec = NoRec THEN "notfound"
    ELSE IF rec.isUsed THEN "used"
    ELSE IF rec.attempts >= MAX_ATTEMPTS THEN "toomany"
    ELSE IF t > rec.expiresAt THEN "expired"
    ELSE IF ~(code = rec.code \/ hashOtpCode(code) = rec.hashedCode) THEN "invalid"
    ELSE "valid"

\* verifyOtp's checks on the row getOtpVerification returned, at clock t, in order
VerifyDecision(rec, code, t) ==
    IF rec = NoRec THEN "notfound"
    ELSE IF rec.isUsed THEN "used"
    ELSE IF t > rec.expiresAt THEN "expired"
    ELSE IF rec.attempts >= MAX_ATTEMPTS THEN "toomany"
    ELSE IF ~(code = rec.code \/ hashOtpCode(code) = rec.hashedCode) THEN "invalid"
    ELSE "valid"

\* sendSmsOtp / sendEmailOtp: the results the dispatcher can return under configuration e
SmsResults(e) ==
    IF ~e.twilioClient THEN { Fail(ErrSmsNotConfigured) }
    ELSE IF ~e.twilioPhoneNumber THEN { Fail(ErrSmsNoNumber) }
    ELSE { Ok(<<"SMS verification code sent successfully">>),
           Fail(ErrSms21211), Fail(ErrSms21608), Fail(ErrSmsFailed) }

EmailResults(e) ==
    IF ~e.sendgridApiKey THEN { Fail(ErrEmailNotConfigured) }
    ELSE IF ~e.sendgridFromEmail THEN { Fail(ErrEmailNoSender) }
    ELSE { Ok(<<"Email verification code sent successfully">>),
           Fail(ErrEmailInvalid), Fail(ErrEmailFailed) }

SendResults(e, type) == IF type = "sms" THEN SmsResults(e) ELSE EmailResults(e)

(* ---------------- state ---------------- *)

\* headers: the words of the request's Authorization header (none: no header)
NoReq == [op |-> "none", identifier |-> <<>>, type |-> "", code |-> "", headers |-> <<>>]
NoFresh == [id |-> 0, code |-> "", expiresAt |-> 0]
\* last24Hours, totalSent, totalVerified: getOtpStats's locals.
\* rec: the row getOtpVerification returned; decision: what verifyOtp's checks found;
\* cleanupNow, code, expiresAt, id, sendResult: requestOtp's locals.
\* History, for the properties: expiredAtLookup (the row's expiresAt was in the
\* past when it was looked up), usedBefore (UsedLast when the verification
\* started), freshAt (the pair's fresh code when the verification started, if
\* the verification is made no later than its expiresAt).
NoLoc == [rec |-> NoRec, cleanupNow |-> 0, code |-> "",
          expiresAt |-> 0, id |-> 0, sendResult |-> NoResult, decision |-> "",
          last24Hours |-> 0, totalSent |-> 0, totalVerified |-> 0,
          expiredAtLookup |-> FALSE, usedBefore |-> FALSE, freshAt |-> NoFresh]

\* the provider configurations a deployment is started with
Envs ==
    { [twilioClient |-> TRUE, twilioPhoneNumber |-> TRUE,
       sendgridApiKey |-> TRUE, sendgridFromEmail |-> TRUE],
      [twilioClient |-> FALSE, twilioPhoneNumber |-> FALSE,
       sendgridApiKey |-> TRUE, sendgridFromEmail |-> TRUE] }

\* the request bodies, the pairs verification is asked for and the number of
\* rows inserted, per scenario
ArrivingRequests ==
    CASE scenario = "rate" -> { <<Phone1, "sms">> }
      [] scenario = "inputs" -> SampleInputs
      [] scenario = "fault" -> RequestInputs \cup { MalformedBody }
      [] scenario = "stats" -> { <<Phone1, "sms">> }
      [] OTHER -> RequestInputs
ArrivingVerifyPairs ==
    CASE scenario = "rate" -> { <<Phone1, "sms">> }
      [] scenario = "fault" -> VerifyPairs \cup { MalformedBody }
      [] scenario = "stats" -> { <<Phone1, "sms">> }
      [] OTHER -> VerifyPairs
\* whether a statement sent to the database fails (the driver throws)
StoreFails == IF scenario \in {"fault", "stats"} THEN {FALSE, TRUE} ELSE {FALSE}
\* the codes the generator happens to draw: any it can return, or always the same
DrawnCodes == IF scenario \in {"rate", "inputs", "stats"} THEN { ToString(100000) } ELSE generateOtpCode
RecordBudget ==
    CASE scenario = "rate" -> MaxRateRecords
      [] scenario \in {"inputs", "fault"} -> 1
      [] OTHER -> MaxRecords

(* ---------------- rateLimiter (express middleware) ---------------- *)

\* requests.get(key) when the Map has no entry for the key
NoRecord == [count |-> 0, resetTime |-> 0]
NoReply == [key |-> "", next |-> FALSE, status |-> 0]
\* app.use('/api', rateLimiter()): the default windowMs and max
DefaultLimits == [windowMs |-> 15 * 60 * 1000, max |-> 100]
LimiterConfigs == [windowMs : {60 * 1000, 300 * 1000}, max : 1..MaxLimit]
\* req.ip of the requests that arrive ("": req.ip is undefined)
ClientIps == {"10.0.0.1", ""}
ClientKey(ip) == IF ip = "" THEN "unknown" ELSE ip
LimiterKeys == { ClientKey(ip) : ip \in ClientIps }
\* Date.now(): milliseconds
DateNow == now * 1000

\* (mutant) the request is refused only when the count exceeds max
rateLimiter_Late(record, t, windowMs, max) ==
    IF record = NoRecord \/ t > record.resetTime
    THEN [record |-> [count |-> 1, resetTime |-> t + windowMs], next |-> TRUE, status |-> 0]
    ELSE IF record.count > max
    THEN [record |-> record, next |-> FALSE, status |-> 429]
    ELSE [record |-> [record EXCEPT !.count = record.count + 1], next |-> TRUE, status |-> 0]

\* the middleware on the key's record at Date.now() = t: the record it leaves in
\* the Map, whether it calls next(), and the status it answers with otherwise
rateLimiter(record, t, windowMs, max) ==
    IF record = NoRecord \/ t > record.resetTime
    THEN [record |-> [count |-> 1, resetTime |-> t + windowMs], next |-> TRUE, status |-> 0]
    ELSE IF record.count >= max
    THEN [record |-> record, next |-> FALSE, status |-> 429]
    ELSE [record |-> [record EXCEPT !.count = record.count + 1], next |-> TRUE, status |-> 0]

\* the service has started: the table is empty and no request is being served
Start ==
    /\ now = 0
    /\ store = {}
    /\ nextId = 1
    /\ env \in Envs
    /\ pc = [p \in Procs |-> "idle"]
    /\ req = [p \in Procs |-> NoReq]
    /\ loc = [p \in Procs |-> NoLoc]
    /\ result = [p \in Procs |-> NoResult]
    /\ okCount = [i \in Ids |-> 0]
    /\ fresh = [pr \in VerifyPairs |-> NoFresh]
    /\ requests = [key \in LimiterKeys |-> NoRecord]
    /\ reply = NoReply
    /\ passed = [key \in LimiterKeys |-> 0]

Init == Start /\ scenario = "base" /\ limits = DefaultLimits
InitRate == Start /\ scenario = "rate" /\ limits = DefaultLimits
InitInputs == Start /\ scenario = "inputs" /\ limits = DefaultLimits
InitFault == Start /\ scenario = "fault" /\ limits = DefaultLimits
InitStats == Start /\ scenario = "stats" /\ limits = DefaultLimits
\* the rate limiter alone, created with a short window and a small max
InitLimiter == Start /\ scenario = "limiter" /\ limits \in LimiterConfigs

Pair(r) == <<r.identifier, r.type>>
\* fresh with the pair's entry set to f (pairs no code is ever issued for have none)
SetFresh(pr, f) == IF pr \in VerifyPairs THEN [fresh EXCEPT ![pr] = f] ELSE fresh

\* history: the row created last for the pair is used and carries the code, so
\* the code was verified and no code has been issued for the pair since
UsedLast(pr, code) ==
    \E r \in store :
        /\ Pair(r) = pr
        /\ r.code = code
        /\ r.isUsed
        /\ \A o \in store : Pair(o) = pr /\ o.id # r.id => CreatedAfter(r, o)

\* handlers are interchangeable: a request is taken by the first free one
FirstIdle(p) == pc[p] = "idle" /\ \A q \in Procs : q < p => pc[q] # "idle"

\* the clock advances
Tick ==
    /\ \E t \in Instants : t > now /\ now' = t
    /\ UNCHANGED <<store, nextId, env, pc, req, loc, result, scenario, okCount, fresh>>
    /\ UNCHANGED limiterVars

(* ---------------- OtpService.requestOtp ---------------- *)

\* requests that have passed the rate limiter and not yet inserted their row
Inserting == { q \in Procs : pc[q] \in {"r_cleanup", "r_create"} }

\* the handler starts: input validation, then checkRateLimit: windowStart is
\* computed, storage.getRecentOtpRequests executes and the count is compared; a
\* request within the limit calls storage.cleanupExpiredOtps, which reads the clock
RequestCheck(p) ==
    /\ FirstIdle(p)
    /\ \E in \in ArrivingRequests :
        LET err == ValidationError(in[1], in[2])
            windowStart == now - RATE_LIMIT_WINDOW
            cnt == Cardinality(getRecentOtpRequests(store, in[1], in[2], windowStart))
        IN
        /\ req' = [req EXCEPT ![p] = [op |-> "request", identifier |-> in[1],
                                      type |-> in[2], code |-> "", headers |-> <<>>]]
        /\ fresh' = SetFresh(in, NoFresh)
        /\ \E fails \in StoreFails :
           IF ~otpRequestSchema(in)
             THEN /\ pc' = [pc EXCEPT ![p] = "badbody"]
                  /\ UNCHANGED <<result, loc>>
             ELSE IF err # <<>>
             THEN /\ pc' = [pc EXCEPT ![p] = "done"]
                  /\ result' = [result EXCEPT ![p] = Fail(err)]
                  /\ loc' = loc
             ELSE IF fails
             THEN /\ pc' = [pc EXCEPT ![p] = "threw"]
                  /\ UNCHANGED <<result, loc>>
             ELSE IF ~WithinRateLimit(cnt)
             THEN /\ pc' = [pc EXCEPT ![p] = "done"]
                  /\ result' = [result EXCEPT ![p] = Fail(ErrRateLimit)]
                  /\ loc' = loc
             ELSE /\ nextId + Cardinality(Inserting) <= RecordBudget
                  /\ pc' = [pc EXCEPT ![p] = "r_cleanup"]
                  /\ loc' = [loc EXCEPT ![p].cleanupNow = now]
                  /\ result' = result
    /\ UNCHANGED <<now, store, nextId, env, scenario, okCount>>
    /\ UNCHANGED limiterVars

\* the cleanup's DELETE executes; then the code, its digest and expiresAt are
\* computed and storage.createOtpVerification is called
RequestCleanup(p) ==
    /\ pc[p] = "r_cleanup"
    /\ \E fails \in StoreFails :
        IF fails
          THEN /\ pc' = [pc EXCEPT ![p] = "threw"]
               /\ loc' = [loc EXCEPT ![p].cleanupNow = 0]
               /\ store' = store
          ELSE /\ store' = cleanupExpiredOtps(store, loc[p].cleanupNow)
               /\ \E code \in generateOtpCode \cap DrawnCodes :
                   loc' = [loc EXCEPT ![p].cleanupNow = 0,
                                      ![p].code = code,
                                      ![p].expiresAt = now + OTP_EXPIRY_MINUTES * 60]
               /\ pc' = [pc EXCEPT ![p] = "r_create"]
    /\ UNCHANGED <<now, nextId, env, scenario, req, result, okCount, fresh>>
    /\ UNCHANGED limiterVars

\* the INSERT executes; then the dispatcher is called
RequestCreate(p) ==
    /\ pc[p] = "r_create"
    /\ \E fails \in StoreFails :
        IF fails
          THEN /\ pc' = [pc EXCEPT ![p] = "done"]
               /\ result' = [result EXCEPT ![p] = Fail(ErrProcess)]
               /\ loc' = [loc EXCEPT ![p].code = "", ![p].expiresAt = 0]
               /\ UNCHANGED <<store, nextId>>
          ELSE /\ store' = createOtpVerification(store,
                    [identifier |-> req[p].identifier, type |-> req[p].type,
                     code |-> loc[p].code, hashedCode |-> hashOtpCode(loc[p].code),
                     attempts |-> 0, isUsed |-> FALSE, expiresAt |-> loc[p].expiresAt],
                    nextId, now)
               /\ nextId' = nextId + 1
               /\ loc' = [loc EXCEPT ![p].id = nextId]
               /\ pc' = [pc EXCEPT ![p] = "r_send"]
               /\ result' = result
    /\ UNCHANGED <<now, env, scenario, req, okCount, fresh>>
    /\ UNCHANGED limiterVars

\* the dispatcher returns; on success requestOtp returns, on failure it calls
\* storage.deleteOtpVerification
RequestSend(p) ==
    /\ pc[p] = "r_send"
    /\ \E sendResult \in SendResults(env, req[p].type) :
        IF sendResult.success
          THEN /\ pc' = [pc EXCEPT ![p] = "done"]
               /\ result' = [result EXCEPT ![p] =
                      OkData(<<"Verification code sent successfully via",
                               IF req[p].type = "sms" THEN "SMS" ELSE "email">>,
                             <<"expiresAt", ToISOString(loc[p].expiresAt),
                               "expiresInMinutes", OTP_EXPIRY_MINUTES>>)]
               /\ fresh' = SetFresh(Pair(req[p]), [id |-> loc[p].id, code |-> loc[p].code,
                                                    expiresAt |-> loc[p].expiresAt])
               /\ loc' = [loc EXCEPT ![p].code = "", ![p].expiresAt = 0]
          ELSE /\ pc' = [pc EXCEPT ![p] = "r_rollback"]
               /\ loc' = [loc EXCEPT ![p].sendResult = sendResult,
                                  ![p].code = "", ![p].expiresAt = 0]
               /\ UNCHANGED <<result, fresh>>
    /\ UNCHANGED <<now, store, nextId, env, scenario, req, okCount>>
    /\ UNCHANGED limiterVars

\* the rollback's DELETE executes and requestOtp returns the dispatcher's result
RequestRollback(p) ==
    /\ pc[p] = "r_rollback"
    /\ \E fails \in StoreFails :
        IF fails
          THEN /\ store' = store
               /\ result' = [result EXCEPT ![p] = Fail(ErrProcess)]
          ELSE /\ store' = deleteOtpVerification(store, req[p].identifier, req[p].type)
               /\ result' = [result EXCEPT ![p] = loc[p].sendResult]
    /\ pc' = [pc EXCEPT ![p] = "done"]
    /\ loc' = [loc EXCEPT ![p].sendResult = NoResult]
    /\ UNCHANGED <<now, nextId, env, scenario, req, okCount, fresh>>
    /\ UNCHANGED limiterVars

(* ---------------- OtpService.verifyOtp ---------------- *)

\* the handler starts, storage.getOtpVerification executes and the checks on the
\* row it returned are made, which read the clock; then one statement is sent,
\* or verifyOtp returns
VerifyLookup(p) ==
    /\ FirstIdle(p)
    /\ \E pr \in ArrivingVerifyPairs, code \in SubmittedCodes, fails \in StoreFails :
        LET rec == getOtpVerification(store, pr[1], pr[2])
            d == VerifyDecision(rec, code, now)
        IN
        /\ req' = [req EXCEPT ![p] = [op |-> "verify", identifier |-> pr[1],
                                      type |-> pr[2], code |-> code, headers |-> <<>>]]
        /\ fresh' = SetFresh(pr, NoFresh)
        /\ IF ~otpVerifySchema(pr)
             THEN /\ pc' = [pc EXCEPT ![p] = "badbody"]
                  /\ UNCHANGED <<loc, result>>
             ELSE IF fails
             THEN /\ pc' = [pc EXCEPT ![p] = "done"]
                  /\ result' = [result EXCEPT ![p] = Fail(ErrVerify)]
                  /\ loc' = loc
             ELSE
             /\ loc' = [loc EXCEPT ![p].rec = rec,
                              ![p].decision = d,
                              ![p].expiredAtLookup = (rec # NoRec /\ now > rec.expiresAt),
                              ![p].usedBefore = UsedLast(pr, code),
                              ![p].freshAt = IF now <= fresh[pr].expiresAt
                                               THEN fresh[pr] ELSE NoFresh]
             /\ pc' = [pc EXCEPT ![p] =
                    CASE d \in {"notfound", "used"} -> "done"
                      [] d \in {"expired", "toomany"} -> "v_delete"
                      [] d = "invalid" -> "v_increment"
                      [] OTHER -> "v_mark"]
             /\ result' = [result EXCEPT ![p] =
                    CASE d = "notfound" -> Fail(ErrNotFound)
                      [] d = "used" -> Fail(ErrUsed)
                      [] OTHER -> NoResult]
    /\ UNCHANGED <<now, store, nextId, env, scenario, okCount>>
    /\ UNCHANGED limiterVars

\* storage.deleteOtpVerification executes (expired, or too many attempts)
VerifyDelete(p) ==
    /\ pc[p] = "v_delete"
    /\ \E fails \in StoreFails :
        IF fails
          THEN /\ store' = store
               /\ result' = [result EXCEPT ![p] = Fail(ErrVerify)]
          ELSE /\ store' = deleteOtpVerification(store, req[p].identifier, req[p].type)
               /\ result' = [result EXCEPT ![p] =
                    IF loc[p].decision = "expired" THEN Fail(ErrExpired) ELSE Fail(ErrTooMany)]
    /\ pc' = [pc EXCEPT ![p] = "done"]
    /\ UNCHANGED <<now, nextId, env, scenario, req, loc, okCount, fresh>>
    /\ UNCHANGED limiterVars

\* storage.incrementOtpAttempts executes (mismatch)
VerifyIncrement(p) ==
    /\ pc[p] = "v_increment"
    /\ \E fails \in StoreFails :
        IF fails
          THEN /\ store' = store
               /\ result' = [result EXCEPT ![p] = Fail(ErrVerify)]
          ELSE /\ store' = incrementOtpAttempts(store, loc[p].rec.id)
               /\ result' = [result EXCEPT ![p] =
                    Fail(ErrInvalidCode(MAX_ATTEMPTS - (loc[p].rec.attempts + 1)))]
    /\ pc' = [pc EXCEPT ![p] = "done"]
    /\ UNCHANGED <<now, nextId, env, scenario, req, loc, okCount, fresh>>
    /\ UNCHANGED limiterVars

\* storage.markOtpAsUsed executes (match) and verifyOtp returns success
VerifyMark(p) ==
    /\ pc[p] = "v_mark"
    /\ \E fails \in StoreFails :
        IF fails
          THEN /\ store' = store
               /\ result' = [result EXCEPT ![p] = Fail(ErrVerify)]
               /\ okCount' = okCount
          ELSE /\ store' = markOtpAsUsed(store, loc[p].rec.id)
               /\ result' = [result EXCEPT ![p] =
                      OkData(<<"Verification successful">>,
                             <<"identifier", req[p].identifier, "type", req[p].type,
                               "verifiedAt", ToISOString(now)>>)]
               /\ okCount' = [okCount EXCEPT ![loc[p].rec.id] = @ + 1]
    /\ pc' = [pc EXCEPT ![p] = "done"]
    /\ UNCHANGED <<now, nextId, env, scenario, req, loc, fresh>>
    /\ UNCHANGED limiterVars

\* (mutant) the catch blocks answer 500, as the statistics route does
Response_Catch500(p) ==
    IF pc[p] \in {"threw", "badbody"}
      THEN [status |-> 500,
            body |-> [success |-> FALSE,
                      error |-> IF req[p].op = "request" THEN ErrBadRequest ELSE ErrBadVerify]]
      ELSE IF result[p].success
      THEN [status |-> 200,
            body |-> [success |-> TRUE, message |-> result[p].message, data |-> result[p].data]]
      ELSE [status |-> 400,
            body |-> [success |-> FALSE, error |-> result[p].error]]

\* the response of the routes POST /api/otp/request and POST /api/otp/verify,
\* once the service has returned or an exception has reached the route's catch
Response(p) ==
    IF pc[p] \in {"threw", "badbody"}
      THEN [status |-> 400,
            body |-> [success |-> FALSE,
                      error |-> IF req[p].op = "request" THEN ErrBadRequest ELSE ErrBadVerify]]
      ELSE IF result[p].success
      THEN [status |-> 200,
            body |-> [success |-> TRUE, message |-> result[p].message, data |-> result[p].data]]
      ELSE [status |-> 400,
            body |-> [success |-> FALSE, error |-> result[p].error]]

(* ---------------- GET /api/otp/stats ---------------- *)

StatsReply(status, body) == [status |-> status, body |-> body]

\* the request passes authenticateToken and requirePermission('view_analytics')
\* or is answered by one of them; the route handler calls OtpService.getOtpStats:
\* the clock is read and the first count executes
StatsAuth(p) ==
    /\ FirstIdle(p)
    /\ \E headers \in ArrivingHeaders :
        LET gate == StatsGate(headers, now) IN
        /\ req' = [req EXCEPT ![p] = [NoReq EXCEPT !.op = "stats", !.headers = headers]]
        /\ \E fails \in StoreFails :
            IF ~gate.next
            THEN /\ ~fails
                 /\ result' = [result EXCEPT ![p] = StatsReply(gate.status, gate.body)]
                 /\ pc' = [pc EXCEPT ![p] = "done"]
                 /\ UNCHANGED loc
            ELSE IF fails
            THEN /\ result' = [result EXCEPT ![p] = StatsReply(200, ZeroStats)]
                 /\ pc' = [pc EXCEPT ![p] = "done"]
                 /\ UNCHANGED loc
            ELSE /\ loc' = [loc EXCEPT ![p] = [NoLoc EXCEPT !.last24Hours = now - 24 * 60 * 60,
                                                            !.totalSent = CountSent(store)]]
                 /\ pc' = [pc EXCEPT ![p] = "s_verified"]
                 /\ UNCHANGED result
    /\ UNCHANGED <<now, store, nextId, env, scenario, okCount, fresh>>
    /\ UNCHANGED limiterVars

\* the second count executes
StatsVerified(p) ==
    /\ pc[p] = "s_verified"
    /\ \E fails \in StoreFails :
        IF fails
        THEN /\ result' = [result EXCEPT ![p] = StatsReply(200, ZeroStats)]
             /\ pc' = [pc EXCEPT ![p] = "done"]
             /\ UNCHANGED loc
        ELSE /\ loc' = [loc EXCEPT ![p].totalVerified = CountVerified(store)]
             /\ pc' = [pc EXCEPT ![p] = "s_recent"]
             /\ UNCHANGED result
    /\ UNCHANGED <<now, store, nextId, env, req, scenario, okCount, fresh>>
    /\ UNCHANGED limiterVars

\* the third count executes, the rate is computed and the route answers 200
StatsRecent(p) ==
    /\ pc[p] = "s_recent"
    /\ \E fails \in StoreFails :
        result' = [result EXCEPT ![p] =
            IF fails
            THEN StatsReply(200, ZeroStats)
            ELSE StatsReply(200, OtpStats(loc[p].totalSent, loc[p].totalVerified,
                                          CountRecent(store, loc[p].last24Hours)))]
    /\ pc' = [pc EXCEPT ![p] = "done"]
    /\ UNCHANGED <<now, store, nextId, env, req, loc, scenario, okCount, fresh>>
    /\ UNCHANGED limiterVars

\* GET /api/otp/stats, from the statement the handler is at
StatsRoute(p) ==
    CASE pc[p] = "s_verified" -> StatsVerified(p)
      [] pc[p] = "s_recent" -> StatsRecent(p)
      [] OTHER -> StatsAuth(p)

(* ---------------- requests through the rate limiter ---------------- *)

\* a request to /api arrives from a client address and the middleware runs
RateLimiterRequest ==
    /\ \E ip \in ClientIps :
        LET key == ClientKey(ip)
            out == rateLimiter(requests[key], DateNow, limits.windowMs, limits.max)
        IN
        /\ requests' = [requests EXCEPT ![key] = out.record]
        /\ reply' = [key |-> key, next |-> out.next, status |-> out.status]
        /\ passed' = [passed EXCEPT ![key] =
                IF out.record.resetTime # requests[key].resetTime THEN 1
                ELSE IF out.next THEN passed[key] + 1
                ELSE passed[key]]
    /\ UNCHANGED <<now, store, nextId, env, pc, req, loc, result, scenario, okCount, fresh, limits>>

\* the caller has its response; the handler is free for the next request
Return(p) ==
    /\ pc[p] \in {"done", "threw", "badbody"}
    /\ pc' = [pc EXCEPT ![p] = "idle"]
    /\ req' = [req EXCEPT ![p] = NoReq]
    /\ loc' = [loc EXCEPT ![p] = NoLoc]
    /\ result' = [result EXCEPT ![p] = NoResult]
    /\ UNCHANGED <<now, store, nextId, env, scenario, okCount, fresh>>
    /\ UNCHANGED limiterVars

(* ---------------- specifications ---------------- *)

Step(p) ==
    \/ RequestCheck(p)
    \/ RequestCleanup(p)
    \/ RequestCreate(p)
    \/ RequestSend(p)
    \/ RequestRollback(p)
    \/ VerifyLookup(p)
    \/ VerifyDelete(p)
    \/ VerifyIncrement(p)
    \/ VerifyMark(p)
    \/ Return(p)

\* requests are served one at a time: a handler starts when no other is running
Alone(p) == \A q \in Procs \ {p} : pc[q] = "idle"

Next ==
    \/ Tick
    \/ \E p \in Procs : Alone(p) /\ RequestCheck(p)
    \/ \E p \in Procs : Alone(p) /\ RequestCleanup(p)
    \/ \E p \in Procs : Alone(p) /\ RequestCreate(p)
    \/ \E p \in Procs : Alone(p) /\ RequestSend(p)
    \/ \E p \in Procs : Alone(p) /\ RequestRollback(p)
    \/ \E p \in Procs : Alone(p) /\ VerifyLookup(p)
    \/ \E p \in Procs : Alone(p) /\ VerifyDelete(p)
    \/ \E p \in Procs : Alone(p) /\ VerifyIncrement(p)
    \/ \E p \in Procs : Alone(p) /\ VerifyMark(p)
    \/ \E p \in Procs : Alone(p) /\ Return(p)

Spec == Init /\ [][Next]_vars

\* requests are served concurrently, within one instant of the clock: the
\* statements of the handlers interleave
NextConc == \E p \in Procs : Step(p)

SpecConc == Init /\ [][NextConc]_vars

\* one phone number asks for codes repeatedly, requests served one at a time
SpecRate == InitRate /\ [][Next]_vars

\* only issuance requests arrive, one at a time, within one instant of the clock
NextIssue ==
    \/ \E p \in Procs : Alone(p) /\ RequestCheck(p)
    \/ \E p \in Procs : Alone(p) /\ RequestCleanup(p)
    \/ \E p \in Procs : Alone(p) /\ RequestCreate(p)
    \/ \E p \in Procs : Alone(p) /\ RequestSend(p)
    \/ \E p \in Procs : Alone(p) /\ RequestRollback(p)
    \/ \E p \in Procs : Alone(p) /\ Return(p)

\* identifiers of every shape are submitted
SpecInputs == InitInputs /\ [][NextIssue]_vars

\* bodies can be malformed and store statements can fail, requests served one at a time
SpecFault == InitFault /\ [][Next]_vars

\* the statistics route is called among issuances and verifications for one
\* phone number, requests served one at a time, store statements can fail
NextStats ==
    \/ Tick
    \/ \E p \in Procs : Alone(p) /\ RequestCheck(p)
    \/ \E p \in Procs : Alone(p) /\ RequestCleanup(p)
    \/ \E p \in Procs : Alone(p) /\ RequestCreate(p)
    \/ \E p \in Procs : Alone(p) /\ RequestSend(p)
    \/ \E p \in Procs : Alone(p) /\ RequestRollback(p)
    \/ \E p \in Procs : Alone(p) /\ VerifyLookup(p)
    \/ \E p \in Procs : Alone(p) /\ VerifyDelete(p)
    \/ \E p \in Procs : Alone(p) /\ VerifyIncrement(p)
    \/ \E p \in Procs : Alone(p) /\ VerifyMark(p)
    \/ \E p \in Procs : Alone(p) /\ StatsRoute(p)
    \/ \E p \in Procs : Alone(p) /\ Return(p)

SpecStats == InitStats /\ [][NextStats]_vars

\* only issuance requests arrive, served concurrently within one instant of the clock
NextIssueConc ==
    \/ \E p \in Procs : RequestCheck(p)
    \/ \E p \in Procs : RequestCleanup(p)
    \/ \E p \in Procs : RequestCreate(p)
    \/ \E p \in Procs : RequestSend(p)
    \/ \E p \in Procs : RequestRollback(p)
    \/ \E p \in Procs : Return(p)

\* one phone number asks for codes repeatedly, requests served concurrently
SpecRateConc == InitRate /\ [][NextIssueConc]_vars

\* requests from a few client addresses reach the rate limiter as the clock advances
NextLimiter ==
    \/ Tick
    \/ RateLimiterRequest

SpecLimiter == InitLimiter /\ [][NextLimiter]_vars

(* ---------------- properties ---------------- *)

VerifyDone(p) == pc[p] = "done" /\ req[p].op = "verify"
InStore(id) == \E r \in store : r.id = id
CodeMatches(code, rec) == code = rec.code \/ hashOtpCode(code) = rec.hashedCode

\* C1: verifyOtp returns success only if the row it looked up was, at lookup
\* time, the most recently created unused row of the (identifier, channel), not
\* expired, with attempts < 3 and a code (or digest) equal to the submitted one;
\* and on success that row, and no other, has been marked isUsed = true.
C1_SuccessState ==
    \A p \in Procs :
        VerifyDone(p) /\ result[p].success =>
            LET rec == loc[p].rec IN
            /\ rec # NoRec
            /\ Pair(rec) = Pair(req[p])
            /\ ~rec.isUsed
            /\ ~loc[p].expiredAtLookup
            /\ rec.attempts < MAX_ATTEMPTS
            /\ CodeMatches(req[p].code, rec)
            /\ [rec EXCEPT !.isUsed = TRUE] \in store
            /\ \A o \in store :
                   Pair(o) = Pair(rec) /\ ~o.isUsed => CreatedAfter(rec, o)

C1_SuccessStep ==
    \A p \in Procs :
        pc[p] # "done" /\ pc'[p] = "done" /\ req'[p].op = "verify" /\ result'[p].success =>
            /\ \A r \in store : r.id # loc[p].rec.id => r \in store'
            /\ \A r \in store' : r.id # loc[p].rec.id => r \in store
            /\ \E r \in store : r.id = loc[p].rec.id /\ ~r.isUsed

C1_VerifySuccessOnlyIfValid == []C1_SuccessState /\ [][C1_SuccessStep]_vars

\* C1 witness: a verification has succeeded against the newer of two rows of a pair
C1_Witness ==
    \E p \in Procs :
        /\ VerifyDone(p) /\ result[p].success
        /\ \E o \in store : Pair(o) = Pair(loc[p].rec) /\ o.id < loc[p].rec.id /\ ~o.isUsed

\* C2: with requests served one at a time, no row is verified successfully
\* more than once.
C2_AtMostOneSuccessPerRecord == \A id \in Ids : okCount[id] <= 1

\* C2 witness: a row was verified, and a later verification with its code has failed
C2_Witness ==
    \E p \in Procs :
        /\ VerifyDone(p) /\ ~result[p].success /\ loc[p].usedBefore
        /\ \E r \in store : r.code = req[p].code /\ Pair(r) = Pair(req[p]) /\ okCount[r.id] = 1

\* C3: two verifications of the same row never both return success, also when
\* their statements interleave.
C3_NoTwoSuccessesOnOneRecord ==
    \A p, q \in Procs :
        /\ p # q
        /\ VerifyDone(p) /\ result[p].success
        /\ VerifyDone(q) /\ result[q].success
        => loc[p].rec.id # loc[q].rec.id

\* C4: a verification with a code that has already been verified for the pair
\* (and was the last one issued for it) fails with the "already been used" error.
C4_SecondVerifyAlreadyUsed ==
    \A p \in Procs :
        VerifyDone(p) /\ loc[p].usedBefore => result[p] = Fail(ErrUsed)

\* C5: a verification never succeeds against a row of a pair for which a code
\* has been issued since (a superseded code never verifies).
C5_SupersededNeverVerifies ==
    \A p \in Procs :
        VerifyDone(p) /\ result[p].success =>
            ~\E r \in store : Pair(r) = Pair(loc[p].rec) /\ CreatedAfter(r, loc[p].rec)

\* C6: every row has 0 <= attempts <= 3 in every reachable state, also when the
\* statements of several verifications interleave.
C6_AttemptsBounded ==
    \A r \in store : 0 <= r.attempts /\ r.attempts <= MAX_ATTEMPTS

\* C7: once a verifyOtp has returned, the store holds no row with attempts = 3.
C7_NoMaxedRecordAfterReturn ==
    (\A p \in Procs : pc[p] \in {"idle", "done"}) =>
        \A r \in store : r.attempts # MAX_ATTEMPTS

\* C7 as amended: a row whose attempts have reached 3 stays in the store, never
\* beyond 3 attempts and never used, and the next verifyOtp that looks it up fails
\* and deletes it.
C7_MaxedRecordDeletedOnNextLookup ==
    /\ \A r \in store : r.attempts <= MAX_ATTEMPTS /\ (r.attempts = MAX_ATTEMPTS => ~r.isUsed)
    /\ \A p \in Procs :
        VerifyDone(p) /\ loc[p].rec.attempts >= MAX_ATTEMPTS =>
            /\ result[p] \in {Fail(ErrTooMany), Fail(ErrExpired)}
            /\ ~InStore(loc[p].rec.id)

\* C7 witness: the third failed verification has returned and its row is still stored
C7_Witness ==
    \E p \in Procs :
        /\ VerifyDone(p)
        /\ result[p] = Fail(ErrInvalidCode(0))
        /\ \E r \in store : r.id = loc[p].rec.id /\ r.attempts = MAX_ATTEMPTS

\* C8: after three failed verifications of a row, a verification with the
\* correct code (made before the row expires) fails with "too many attempts" and
\* deletes the row; no success is ever returned against a row with 3 attempts,
\* such a row never gets fewer attempts, and a deleted row never comes back.
C8_MaxedState ==
    /\ \A r \in store : r.id < nextId
    /\ \A p \in Procs :
        /\ VerifyDone(p)
        /\ loc[p].rec.attempts >= MAX_ATTEMPTS
        /\ ~loc[p].expiredAtLookup
        => /\ result[p] = Fail(ErrTooMany)
           /\ ~InStore(loc[p].rec.id)

C8_MaxedStep ==
    /\ nextId' >= nextId
    /\ \A r \in store' : InStore(r.id) \/ r.id >= nextId
    /\ \A r \in store :
        r.attempts >= MAX_ATTEMPTS =>
            /\ okCount'[r.id] = okCount[r.id]
            /\ \A n \in store' : n.id = r.id => n.attempts >= MAX_ATTEMPTS /\ ~n.isUsed

C8_CorrectCodeAfterThreeFailures == []C8_MaxedState /\ [][C8_MaxedStep]_vars

\* C8 witness: the correct code was submitted for a row with 3 attempts
C8_Witness ==
    \E p \in Procs :
        /\ VerifyDone(p)
        /\ loc[p].rec.attempts = MAX_ATTEMPTS
        /\ req[p].code = loc[p].rec.code
        /\ result[p] = Fail(ErrTooMany)

\* C9: a verification whose looked-up row has expiresAt in the past fails with
\* the "expired" error, whatever the row's attempts and the submitted code, and
\* the row is no longer in the store.
C9_ExpiredNeverVerifies ==
    \A p \in Procs :
        VerifyDone(p) /\ loc[p].expiredAtLookup =>
            /\ result[p] = Fail(ErrExpired)
            /\ ~InStore(loc[p].rec.id)

\* C9 witness: the correct code was submitted for an expired row with 3 attempts
C9_Witness ==
    \E p \in Procs :
        /\ VerifyDone(p)
        /\ loc[p].expiredAtLookup
        /\ loc[p].rec.attempts = MAX_ATTEMPTS
        /\ req[p].code = loc[p].rec.code

\* C10: after a successful requestOtp for a pair and no other operation on the
\* pair since, a verification with the delivered code made no later than the
\* reported expiresAt succeeds and marks the row used.
C10_FreshCodeVerifies ==
    \A p \in Procs :
        /\ VerifyDone(p)
        /\ loc[p].freshAt # NoFresh
        /\ req[p].code = loc[p].freshAt.code
        => /\ result[p].success
           /\ \E r \in store : r.id = loc[p].freshAt.id /\ r.isUsed

\* C11: isUsed is monotonic: no step changes a row's isUsed from true to false,
\* a row is inserted with isUsed = false, and the only step that sets it to true
\* is the one by which a verification of that row returns success.
C11_IsUsedStep ==
    \A n \in store' :
        IF InStore(n.id)
          THEN \A r \in store : r.id = n.id =>
                 /\ r.isUsed => n.isUsed
                 /\ ~r.isUsed /\ n.isUsed =>
                        \E p \in Procs :
                            /\ req[p].op = "verify"
                            /\ loc[p].rec.id = r.id
                            /\ pc[p] # "done" /\ pc'[p] = "done"
                            /\ result'[p].success
          ELSE ~n.isUsed

C11_IsUsedMonotonic == [][C11_IsUsedStep]_vars

\* C11 witness: a verification has failed on a mismatch while the pair has a used row
C11_Witness ==
    \E p \in Procs :
        /\ VerifyDone(p) /\ ~result[p].success
        /\ loc[p].decision = "invalid"
        /\ \E r \in store : Pair(r) = Pair(req[p]) /\ r.isUsed

RequestDone(p) == pc[p] = "done" /\ req[p].op = "request"
\* every row ever inserted is still stored, unused and without a failed attempt:
\* every dispatch so far has succeeded and no verification has touched a row
Pristine ==
    /\ Cardinality(store) = nextId - 1
    /\ \A r \in store : ~r.isUsed /\ r.attempts = 0

\* C12: with all dispatches succeeding and no verification in between, a
\* requestOtp of the pair is rejected by the rate limiter only once three have
\* been accepted, the fourth is accepted only if it is made more than 60 seconds
\* after the first row was created, and a rejected request creates no row.
C12_RateState ==
    \A p \in Procs :
        /\ RequestDone(p) /\ result[p] = Fail(ErrRateLimit) /\ Pristine
           => nextId - 1 >= MAX_REQUESTS_PER_WINDOW
        /\ pc[p] = "r_cleanup" /\ Pristine /\ nextId - 1 = MAX_REQUESTS_PER_WINDOW
           => \E r \in store : loc[p].cleanupNow > r.createdAt + RATE_LIMIT_WINDOW

C12_RateStep ==
    \A p \in Procs :
        pc[p] = "idle" /\ pc'[p] = "done" /\ result'[p] = Fail(ErrRateLimit) =>
            store' = store /\ nextId' = nextId

C12_FourthRequestRejected == []C12_RateState /\ [][C12_RateStep]_vars

\* C12 witness: three codes were issued at 0 and the fourth request, 60 seconds
\* later, has been rejected
C12_Witness ==
    \E p \in Procs :
        /\ RequestDone(p) /\ result[p] = Fail(ErrRateLimit) /\ Pristine
        /\ nextId - 1 = MAX_REQUESTS_PER_WINDOW
        /\ now = RATE_LIMIT_WINDOW
        /\ \A r \in store : r.createdAt = 0

\* C13: a requestOtp passes the rate limiter only if fewer than 3 requests of the
\* pair were accepted in the preceding 60 seconds, whatever rows have been deleted
\* since.  (Checked over the first 60 seconds, where every row ever inserted,
\* nextId - 1 of them, was accepted within the preceding 60 seconds.)
C13_DeletionsDoNotResetCount ==
    \A p \in Procs :
        pc[p] = "r_cleanup" /\ loc[p].cleanupNow <= RATE_LIMIT_WINDOW =>
            nextId - 1 < MAX_REQUESTS_PER_WINDOW

\* the formats as the claim words them: '+', a digit 1-9, then 1 to 14 digits;
\* local@domain.tld with non-empty parts free of blanks and '@'
C14_Part(str, from, to) ==
    from <= to /\ \A k \in from..to : str[k] \notin {" ", "@"}
C14_PhoneFormat(str) ==
    \E more \in 1..14 :
        /\ Len(str) = 2 + more
        /\ str[1] = "+"
        /\ str[2] \in {"1", "2", "3", "4", "5", "6", "7", "8", "9"}
        /\ \A k \in 3..(2 + more) : str[k] \in Digits
C14_EmailFormat(str) ==
    \E at \in 1..Len(str), dot \in 1..Len(str) :
        /\ str[at] = "@" /\ str[dot] = "." /\ at < dot
        /\ C14_Part(str, 1, at - 1)
        /\ C14_Part(str, at + 1, dot - 1)
        /\ C14_Part(str, dot + 1, Len(str))
C14_Malformed(r) ==
    /\ r.op = "request"
    /\ IF r.type = "sms" THEN ~C14_PhoneFormat(r.identifier) ELSE ~C14_EmailFormat(r.identifier)

\* C14: a requestOtp whose identifier does not have the channel's format returns
\* the channel's validation error at once, with no code generated and no row
\* created, and its step leaves the store unchanged (no query, sweep, insert or
\* dispatch is made).
C14_InvalidState ==
    \A p \in Procs :
        C14_Malformed(req[p]) =>
            /\ pc[p] = "done"
            /\ result[p] = Fail(IF req[p].type = "sms" THEN ErrInvalidPhone ELSE ErrInvalidEmail)
            /\ loc[p] = NoLoc

C14_InvalidStep ==
    \A p \in Procs :
        pc[p] = "idle" /\ C14_Malformed(req'[p]) =>
            /\ store' = store /\ nextId' = nextId
            /\ pc'[p] = "done"

C14_InvalidInputNoStatefulWork == []C14_InvalidState /\ [][C14_InvalidStep]_vars

\* C14 witness: with a row stored, a phone number of 15 digits after "+2" has
\* been refused
C14_Witness ==
    \E p \in Procs :
        /\ RequestDone(p)
        /\ req[p].identifier = LongPhone(15)
        /\ result[p] = Fail(ErrInvalidPhone)
        /\ store # {}

\* C15: a requestOtp rejected by the rate limiter (which takes 3 stored rows of
\* the pair) has generated no code and has no row; the step that rejects it
\* leaves the store, the row numbering and every other handler unchanged: no
\* sweep, insert or dispatch is made.
C15_RejectedState ==
    \A p \in Procs :
        RequestDone(p) /\ result[p] = Fail(ErrRateLimit) =>
            /\ loc[p] = NoLoc
            /\ Cardinality({ r \in store : Pair(r) = Pair(req[p]) }) >= MAX_REQUESTS_PER_WINDOW

C15_RejectedStep ==
    \A p \in Procs :
        pc[p] # "done" /\ pc'[p] = "done" /\ result'[p] = Fail(ErrRateLimit) =>
            /\ pc[p] = "idle"
            /\ store' = store /\ nextId' = nextId
            /\ \A q \in Procs \ {p} : pc'[q] = pc[q] /\ loc'[q] = loc[q]

C15_RateLimitBeforeGeneration == []C15_RejectedState /\ [][C15_RejectedStep]_vars

\* C15 witness: a request has been rejected by the limiter after a code of the pair
\* got a failed attempt
C15_Witness ==
    \E p \in Procs :
        /\ RequestDone(p) /\ result[p] = Fail(ErrRateLimit)
        /\ \E r \in store : r.attempts > 0

\* the failures the channel's dispatcher can return under the configuration
C16_DispatchFailures(type) == { f \in SendResults(env, type) : ~f.success }

\* C16: a requestOtp whose dispatch failed after its row was created returns the
\* dispatcher's failure, {success: false, error}, and once it has returned the
\* store holds no row created by it.
C16_FailedDispatchState ==
    \A p \in Procs :
        RequestDone(p) /\ loc[p].id # 0 /\ ~result[p].success =>
            /\ result[p] \in C16_DispatchFailures(req[p].type)
            /\ result[p].error # <<>>
            /\ ~InStore(loc[p].id)

C16_FailedDispatchStep ==
    \A p \in Procs :
        pc[p] = "r_rollback" /\ pc'[p] # pc[p] =>
            /\ pc'[p] = "done"
            /\ result'[p] = loc[p].sendResult
            /\ loc[p].sendResult \in C16_DispatchFailures(req[p].type)

C16_DispatchFailureRollsBack == []C16_FailedDispatchState /\ [][C16_FailedDispatchStep]_vars

\* C16 witness: the SMS provider is not configured and a request for a valid phone
\* number has returned
C16_Witness ==
    \E p \in Procs :
        /\ RequestDone(p)
        /\ loc[p].id # 0
        /\ result[p] = Fail(ErrSmsNotConfigured)

\* C17: the rollback after a failed dispatch deletes only the row created by that
\* request: every other row in the store is still there after it.
C17_RollbackStep ==
    \A p \in Procs :
        pc[p] = "r_rollback" /\ pc'[p] = "done" =>
            \A r \in store : r.id # loc[p].id => r \in store'

C17_RollbackDeletesOnlyOwnRecord == [][C17_RollbackStep]_vars

\* C18: when the rollback's delete fails after a failed dispatch, requestOtp
\* still returns the dispatcher's error.
C18_RollbackStep ==
    \A p \in Procs :
        pc[p] = "r_rollback" /\ pc'[p] = "done" =>
            result'[p].error = loc[p].sendResult.error

C18_RollbackFailureKeepsDispatchError == [][C18_RollbackStep]_vars

\* C19: requestOtp and verifyOtp never throw, whichever store statement fails.
C19_ServiceNeverThrows == \A p \in Procs : pc[p] # "threw"

C21_VerifiedSoFar == Cardinality({ i \in Ids : okCount[i] >= 1 })

\* C21: whenever no request is being served, getOtpStats reports totalVerified
\* equal to the number of codes verified so far and totalSent equal to the number
\* of codes issued so far, which is at least the number verified.
C21_StatsCountAllCodes ==
    (\A p \in Procs : pc[p] = "idle") =>
        LET stats == getOtpStats(store, now) IN
        /\ stats.totalVerified = C21_VerifiedSoFar
        /\ stats.totalSent >= C21_VerifiedSoFar

\* the decimal strings of the sampled values of 100000..999999
C22_RangeSamples == { ToString(n) : n \in { m \in RandomSample : 100000 <= m /\ m <= 999999 } }

\* C22: every code a request has generated is the decimal string of a value in
\* 100000..999999, and every value of that range, 999999 included, is one that
\* generateOtpCode can return.
C22_WholeRangeReturned ==
    /\ \A p \in Procs : pc[p] \in {"r_create", "r_send", "r_rollback"} =>
           loc[p].code \in C22_RangeSamples
    /\ \A code \in C22_RangeSamples : code \in generateOtpCode

StatsDone(p) == pc[p] = "done" /\ req[p].op = "stats"
\* the caller presents an access token that verifies (the tokens that arrive are
\* valid at every observed instant or at none)
C23_ValidToken(p) ==
    /\ Len(req[p].headers) = 2
    /\ JwtVerifies(req[p].headers[2], JWT_SECRET, now)
\* the roles of the user the caller's token was issued to grant view_analytics
C23_Granted(p) == Grants(req[p].headers[2].payload.roles, "view_analytics")

\* C23: a caller of GET /otp/stats with a valid access token of a user whose roles
\* grant view_analytics is answered 200 with the statistics; a caller without a
\* valid token is answered 401; a caller whose roles do not grant it is answered 403.
C23_StatsPrivileged ==
    \A p \in Procs :
        StatsDone(p) =>
            IF ~C23_ValidToken(p) THEN result[p].status = 401
            ELSE IF C23_Granted(p)
                 THEN result[p].status = 200 /\ "totalSent" \in DOMAIN result[p].body
                 ELSE result[p].status = 403

\* the row the verification of p looked up was pending and the submitted code
\* does not match it
C24_MismatchOnPending(p, l, q) ==
    /\ q[p].op = "verify"
    /\ l[p].rec # NoRec
    /\ ~l[p].rec.isUsed
    /\ ~l[p].expiredAtLookup
    /\ l[p].rec.attempts < 3
    /\ ~CodeMatches(q[p].code, l[p].rec)
\* the error of a mismatch on a row that had the given number of attempts
C24_Message(attemptsBefore) ==
    CASE attemptsBefore = 0 -> <<"Invalid verification code.", 2, "attempts", "remaining.">>
      [] attemptsBefore = 1 -> <<"Invalid verification code.", 1, "attempt", "remaining.">>
      [] attemptsBefore = 2 -> <<"Invalid verification code.", 0, "attempts", "remaining.">>

\* C24: the step in which a mismatching verifyOtp on a pending row returns adds
\* exactly 1 to that row's attempts, changes nothing else in the store, and returns
\* the error with remaining = 3 - (attempts before + 1): 2, 1 and 0 for the first,
\* second and third failure, worded 'attempt' for 1 and 'attempts' otherwise.
C24_MismatchCountsOneAttempt ==
    [][ \A p \in Procs :
          pc[p] # "done" /\ pc'[p] = "done" /\ C24_MismatchOnPending(p, loc', req') =>
              LET rec == loc'[p].rec IN
              /\ rec \in store
              /\ store' = (store \ {rec}) \cup { [rec EXCEPT !.attempts = rec.attempts + 1] }
              /\ result'[p].success = FALSE
              /\ result'[p].error = C24_Message(rec.attempts) ]_vars

\* the third consecutive failure has returned: 0 attempts remaining
C24_Witness ==
    \E p \in Procs :
        /\ pc[p] = "done"
        /\ C24_MismatchOnPending(p, loc, req)
        /\ loc[p].rec.attempts = 2
        /\ result[p].error = C24_Message(2)
        /\ \E r \in store : r.id = loc[p].rec.id /\ r.attempts = 3

\* newer is the most recently created unused row of the pair the verification of
\* p is for, older is a row of the pair created before it, and the code
\* submitted is the older row's and not the newer row's
C25_OlderCodeSubmitted(p, older, newer) ==
    /\ req'[p].op = "verify"
    /\ Pair(newer) = Pair(req'[p]) /\ Pair(older) = Pair(req'[p])
    /\ ~newer.isUsed
    /\ \A o \in store : Pair(o) = Pair(newer) /\ ~o.isUsed /\ o.id # newer.id => CreatedAfter(newer, o)
    /\ CreatedAfter(newer, older)
    /\ req'[p].code = older.code
    /\ req'[p].code # newer.code
\* the verification of p returns a mismatch, the newer row has one more attempt
\* and every other row, the older one included, is as it was
C25_CountedAgainstNewer(p, newer) ==
    /\ result'[p].success = FALSE
    /\ result'[p].error = C24_Message(newer.attempts)
    /\ store' = (store \ {newer}) \cup { [newer EXCEPT !.attempts = newer.attempts + 1] }

\* C25 (as stated): whenever a verifyOtp returns that submitted the code of an older
\* row while a newer unused row of the pair exists, it is a mismatch counted against
\* the newer row, the older row unchanged.
C25_OlderCodeIsMismatch ==
    [][ \A p \in Procs : \A older, newer \in store :
          pc[p] # "done" /\ pc'[p] = "done" /\ C25_OlderCodeSubmitted(p, older, newer) =>
              C25_CountedAgainstNewer(p, newer) ]_vars

\* C25 (amended): the same, provided the newer row is still pending (not expired
\* when looked up, attempts < 3).
C25_OlderCodeIsMismatchWhilePending ==
    [][ \A p \in Procs : \A older, newer \in store :
          /\ pc[p] # "done" /\ pc'[p] = "done" /\ C25_OlderCodeSubmitted(p, older, newer)
          /\ ~loc'[p].expiredAtLookup
          /\ newer.attempts < MAX_ATTEMPTS
          => C25_CountedAgainstNewer(p, newer) ]_vars

\* the code of the older of two pending rows was submitted and counted against
\* the newer one
C25_Witness ==
    \E p \in Procs : \E older, newer \in store :
        /\ VerifyDone(p)
        /\ Pair(newer) = Pair(req[p]) /\ Pair(older) = Pair(req[p])
        /\ CreatedAfter(newer, older)
        /\ ~newer.isUsed /\ ~older.isUsed
        /\ req[p].code = older.code /\ req[p].code # newer.code
        /\ loc[p].rec.id = newer.id
        /\ newer.attempts = loc[p].rec.attempts + 1
        /\ older.attempts = 0
        /\ result[p].error = C24_Message(loc[p].rec.attempts)

C27_SweepDeletesExactlyExpired ==
    [][ \A p \in Procs :
          pc[p] = "r_cleanup" /\ pc'[p] = "r_create" =>
              store' = { r \in store : ~(loc[p].cleanupNow > r.expiresAt) } ]_vars

\* C28: a requestOtp is rejected as rate-limited only if a request of the pair was
\* accepted less than 60 seconds before it: some row of the pair (created no
\* earlier than the request that inserted it was made) is younger than 60 seconds.
C28_RejectedOnlyWithinWindow ==
    [][ \A p \in Procs :
          pc[p] = "idle" /\ pc'[p] = "done" /\ result'[p] = Fail(ErrRateLimit) =>
              \E r \in store :
                  /\ Pair(r) = Pair(req'[p])
                  /\ now - r.createdAt < RATE_LIMIT_WINDOW ]_vars

\* C29: however requestOtp calls interleave, the store never holds more than 3
\* rows of one (identifier, channel) created within a 60-second window.
C29_AtMostThreePerWindow ==
    \A first \in store :
        Cardinality({ r \in store :
                        /\ Pair(r) = Pair(first)
                        /\ r.createdAt >= first.createdAt
                        /\ r.createdAt < first.createdAt + RATE_LIMIT_WINDOW })
            <= MAX_REQUESTS_PER_WINDOW

\* the record of the key belongs to a window that is open at Date.now()
C30_WindowOpen(key) == requests[key] # NoRecord /\ ~(DateNow > requests[key].resetTime)

\* the stored count of every key is between 1 and max, and no more than max
\* requests have been let through since the key's stored window was opened
C30_CountState ==
    \A key \in LimiterKeys :
        requests[key] # NoRecord =>
            /\ 1 <= requests[key].count /\ requests[key].count <= limits.max
            /\ passed[key] = requests[key].count
            /\ passed[key] <= limits.max

\* a step of the middleware for the key of the request it has just handled: past
\* resetTime (or with no record) it opens a window with count 1 and lets the
\* request through; in an open window with count = max it answers 429, does not
\* call next and leaves the Map unchanged; otherwise it adds 1 and lets it through
C30_LimiterStep ==
    now' = now /\ reply'.key \in LimiterKeys =>
        LET key == reply'.key IN
        /\ \A other \in LimiterKeys \ {key} : requests'[other] = requests[other]
        /\ IF ~C30_WindowOpen(key)
             THEN /\ reply'.next
                  /\ requests'[key] = [count |-> 1, resetTime |-> DateNow + limits.windowMs]
             ELSE IF requests[key].count = limits.max
             THEN /\ ~reply'.next /\ reply'.status = 429
                  /\ requests' = requests
             ELSE /\ reply'.next
                  /\ requests'[key] = [count |-> requests[key].count + 1,
                                       resetTime |-> requests[key].resetTime]

\* C30: per client key the rate limiter lets at most max requests through between
\* the request that opens a window and the window's resetTime; the stored count is
\* always between 1 and max; a request beyond max in the window is answered 429
\* without next() and without changing the stored record; the first request after
\* resetTime opens a new window with count 1.
C30_AtMostMaxPerWindow == []C30_CountState /\ [][C30_LimiterStep]_vars

\* a key has used up a window opened later than one windowMs into the run (max
\* requests let through, max > 1) and a further request in it has been refused
C30_Witness ==
    \E key \in LimiterKeys :
        /\ reply = [key |-> key, next |-> FALSE, status |-> 429]
        /\ requests[key].count = limits.max
        /\ limits.max > 1
        /\ requests[key].resetTime > limits.windowMs + limits.windowMs
        /\ C30_WindowOpen(key)

====
